---- MODULE Spec2Model ----
(***************************************************************************)
(* Read-only operation classification of aws-api-mcp:                      *)
(*   core/metadata/read_only_operations_list.py                            *)
(*     ServiceReferenceUrlsByService  (directory: service -> url)          *)
(*     ReadOnlyOperations             (has(service, operation))            *)
(*   scripts/prebuild_cache.py                                             *)
(*     fetch_service_operations, main (the batch that fills the cache)     *)
(* The file system (cache files) and the network are the environment.      *)
(***************************************************************************)
EXTENDS Integers, Sequences, FiniteSets, TLC

VARIABLES
    metadata,   \* content of the bundled data/api_metadata.json
    dirFile,    \* cache file service_reference_urls.json
    opFiles,    \* cache files service_operations/<service>.json
    persisted,  \* per service: the list in memory when its file was last written
    alive,      \* a ReadOnlyOperations instance exists in the running process
    urls,       \* its _service_reference_urls_by_service (the directory)
    known,      \* its _known_readonly_operations
    mem,        \* the instance itself: dict service -> list of operation names
    fetched,    \* the services this instance has issued a GET for
    last,       \* the call that has just returned: what it was given and
                \* what it gave back to its caller ("none": no call pending)
    batch,      \* the run of scripts/prebuild_cache.py main()
    thr,        \* per thread: where it stands inside has() and its locals
    probe       \* one answer of a service endpoint, and what the batch's
                \* fetch and the runtime's resolver each made of it

vars == <<metadata, dirFile, opFiles, persisted, alive, urls, known, mem, fetched,
          last, batch, thr, probe>>

----------------------------------------------------------------------------
(* Bounds of the model *)

MaxDirLen == 2      \* length of the directory array

Services == {"sts", "s3"}
Urls == {"u1", "u2"}

\* The actions of a service's metadata, in the order the endpoint lists them
Catalog == <<"ls", "AssumeRole">>

\* The operation names has() is asked about
Ops == {"ls", "AssumeRole", "ListBuckets"}

NoKey == "<missing>"   \* a JSON object that lacks the key
Empty == <<>>          \* the empty dict (a function with empty domain)

----------------------------------------------------------------------------
(* Program constants *)

OVERRIDES ==
    ("sts" :> [AssumeRole |-> FALSE,
               AssumeRoleWithWebIdentity |-> FALSE,
               AssumeRoleWithSAML |-> FALSE,
               GetSessionToken |-> FALSE,
               GetFederationToken |-> FALSE,
               AssumeRoot |-> FALSE])
    @@ ("iam" :> [CreateAccessKey |-> FALSE])
    @@ ("cognito-identity" :> [GetCredentialsForIdentity |-> FALSE,
                               GetOpenIdToken |-> FALSE])
    @@ ("sso" :> [GetRoleCredentials |-> FALSE])

_get_custom_readonly_operations ==
    ("s3" :> <<"ls", "presign">>)
    @@ ("cloudfront" :> <<"sign">>)
    @@ ("cloudtrail" :> <<"validate-logs">>)
    @@ ("codeartifact" :> <<"login">>)
    @@ ("codecommit" :> <<"credential-helper">>)
    @@ ("datapipeline" :> <<"list-runs">>)
    @@ ("ecr" :> <<"get-login", "get-login-password">>)
    @@ ("ecr-public" :> <<"get-login-password">>)
    @@ ("eks" :> <<"get-token">>)
    @@ ("emr" :> <<"describe-cluster">>)
    @@ ("gamelift" :> <<"get-game-session-log">>)
    @@ ("logs" :> <<"start-live-tail">>)
    @@ ("rds" :> <<"generate-db-auth-token">>)
    @@ ("configservice" :> <<"get-status">>)

----------------------------------------------------------------------------
(* Helpers *)

\* d[k] = v, as a Python dict assignment
Put(d, k, v) == [x \in (DOMAIN d) \cup {k} |-> IF x = k THEN v ELSE d[x]]

----------------------------------------------------------------------------
(* Cache files: absent, or a text that json.load accepts or rejects *)

Absent == [exists |-> FALSE, closed |-> FALSE, items |-> <<>>]
Truncated == [exists |-> TRUE, closed |-> FALSE, items |-> <<>>]

\* json.dump(value, f) of a list into a freshly opened file
json_dump(value) == [exists |-> TRUE, closed |-> TRUE, items |-> value]

\* json.load(f): ok = FALSE when the text is not a complete JSON document
json_load(file) ==
    IF file.exists /\ file.closed
    THEN [ok |-> TRUE, value |-> file.items]
    ELSE [ok |-> FALSE, value |-> <<>>]

\* open(path, 'w') and json.dump under the three outcomes of the file system:
\*   "ok"    the file holds the dumped value
\*   "fail"  mkdir or open failed, the file is untouched
\*   "trunc" open truncated the file and the write failed
WriteOutcomes == {"ok", "fail", "trunc"}

WriteFile(old, value, wr) ==
    CASE wr = "ok" -> json_dump(value)
      [] wr = "fail" -> old
      [] wr = "trunc" -> Truncated

----------------------------------------------------------------------------
(* The network: what a GET can come back with *)

\* Directory endpoint: requests.get(...).json() raises ("error": timeout,
\* connection error, body that is not JSON), or yields a JSON array of
\* records; a record may lack its url key.
DirRecords(U) == [service : Services, url : U \cup {NoKey}]

\* Arrays of at most MaxDirLen records
DirLists(U) == UNION {[1..k -> DirRecords(U)] : k \in 0..MaxDirLen}

DirResponses(U) ==
    {[kind |-> "error", status |-> 0, records |-> <<>>]}
    \cup [kind : {"json"}, status : {200}, records : DirLists(U)]

\* The same with the status line of the answer: requests.get returns a
\* response for any status, and .json() parses its body whatever the status
Statuses == {200, 500}

DirResponsesWithStatus(U) ==
    {[kind |-> "error", status |-> 0, records |-> <<>>]}
    \cup [kind : {"json"}, status : Statuses, records : DirLists(U)]

NoDirResponse == [kind |-> "none", status |-> 0, records |-> <<>>]

\* Service endpoint: an error as above, or a JSON object that may lack the
\* Actions key; an action carries Name and Annotations.Properties.IsWrite
\* ("read": false, "write": true) or lacks the annotation ("missing").
Annotations == {"read", "write", "missing"}

ActionLists ==
    UNION {{[i \in 1..k |-> [name |-> Catalog[i], ann |-> a[i]]] :
                a \in [1..k -> Annotations]} :
           k \in 0..Len(Catalog)}

ServiceResponses ==
    {[kind |-> "error", status |-> 0, hasActions |-> FALSE, actions |-> <<>>]}
    \cup [kind : {"json"}, status : {200}, hasActions : {FALSE},
          actions : {<<>>}]
    \cup [kind : {"json"}, status : {200}, hasActions : {TRUE},
          actions : ActionLists]

ServiceResponsesWithStatus ==
    {[kind |-> "error", status |-> 0, hasActions |-> FALSE, actions |-> <<>>]}
    \cup [kind : {"json"}, status : Statuses, hasActions : {FALSE},
          actions : {<<>>}]
    \cup [kind : {"json"}, status : Statuses, hasActions : {TRUE},
          actions : ActionLists]

NoServiceResponse ==
    [kind |-> "none", status |-> 0, hasActions |-> FALSE, actions |-> <<>>]

----------------------------------------------------------------------------
(* class ServiceReferenceUrlsByService(dict) *)

\* for service_reference in response:
\*     self[service_reference['service']] = service_reference['url']
\* The loop stops at the first record that raises; what it stored stays.
RECURSIVE StoreRecords(_, _, _)
StoreRecords(d, records, i) ==
    IF i > Len(records) THEN [ok |-> TRUE, dict |-> d]
    ELSE IF records[i].url = NoKey THEN [ok |-> FALSE, dict |-> d]
    ELSE StoreRecords(Put(d, records[i].service, records[i].url), records, i + 1)

\* _save_cache: every exception is caught and logged
_save_cache(file, response, wr) ==
    [file |-> WriteFile(file, response, wr), raised |-> FALSE]

\* Faulty variant: the cached records are read and not stored
_load_cache_not_storing(d, file) ==
    [ok |-> file.exists /\ json_load(file).ok, dict |-> d]

\* Faulty variant: True even when nothing could be loaded
_load_cache_always_true(d, file) ==
    IF file.exists /\ json_load(file).ok
    THEN StoreRecords(d, json_load(file).value, 1)
    ELSE [ok |-> TRUE, dict |-> d]

\* _load_cache: False when the file is absent or unreadable
_load_cache(d, file) ==
    IF ~file.exists THEN [ok |-> FALSE, dict |-> d]
    ELSE LET response == json_load(file)
         IN IF ~response.ok THEN [ok |-> FALSE, dict |-> d]
            ELSE StoreRecords(d, response.value, 1)

\* __init__: the try block, then the except block
ServiceReferenceUrlsByService(resp, file, wr) ==
    LET stored == IF resp.kind = "json"
                  THEN StoreRecords(Empty, resp.records, 1)
                  ELSE [ok |-> FALSE, dict |-> Empty]
        saved == IF stored.ok THEN _save_cache(file, resp.records, wr)
                 ELSE [file |-> file, raised |-> FALSE]
    IN IF stored.ok /\ ~saved.raised
       THEN [raised |-> FALSE, dict |-> stored.dict, file |-> saved.file,
             source |-> "remote"]
       ELSE LET loaded == _load_cache(stored.dict, saved.file)
            IN IF loaded.ok
               THEN [raised |-> FALSE, dict |-> loaded.dict,
                     file |-> saved.file, source |-> "cache"]
               ELSE [raised |-> TRUE, dict |-> loaded.dict,
                     file |-> saved.file, source |-> "none"]

----------------------------------------------------------------------------
(* class ReadOnlyOperations(dict) *)

\* The bundled metadata: service -> operations in file order, each with the
\* value of its 'type' key (NoKey when the key is absent).
MetadataChoices ==
    { ("sts" :> <<[name |-> "AssumeRole", type |-> "ReadOnly"]>>)
        @@ ("s3" :> <<[name |-> "ListBuckets", type |-> NoKey]>>),
      ("sts" :> <<[name |-> "ListBuckets", type |-> "Mutating"]>>)
        @@ ("s3" :> <<[name |-> "ListBuckets", type |-> "ReadOnly"],
                      [name |-> "ls", type |-> "ReadOnly"]>>) }

IsReadOnlyType(operation) == operation.type = "ReadOnly"

Names(operations) == [i \in DOMAIN operations |-> operations[i].name]

\* _get_known_readonly_operations_from_metadata: a defaultdict(list) that
\* gets a key for a service only when an operation is appended to it
_get_known_readonly_operations_from_metadata(data) ==
    [service \in {s \in DOMAIN data :
                     \E i \in DOMAIN data[s] : IsReadOnlyType(data[s][i])}
        |-> Names(SelectSeq(data[service], IsReadOnlyType))]

\* Faulty variant: the custom list replaces the bundled list
MergeCustomReplacing(bundled, custom) ==
    [service \in (DOMAIN bundled) \cup (DOMAIN custom) |->
        IF service \in DOMAIN custom THEN custom[service]
        ELSE bundled[service]]

\* __init__: the custom table is appended to the bundled lists
MergeCustom(bundled, custom) ==
    [service \in (DOMAIN bundled) \cup (DOMAIN custom) |->
        IF service \in DOMAIN custom
        THEN IF service \in DOMAIN bundled
             THEN bundled[service] \o custom[service]
             ELSE custom[service]
        ELSE bundled[service]]

ReadOnlyOperations_init(data) ==
    MergeCustom(_get_known_readonly_operations_from_metadata(data),
                _get_custom_readonly_operations)

\* Faulty variant: the test of IsWrite is not negated
RECURSIVE AppendWrites(_, _, _)
AppendWrites(list, actions, i) ==
    IF i > Len(actions) THEN [ok |-> TRUE, list |-> list]
    ELSE IF actions[i].ann = "missing" THEN [ok |-> FALSE, list |-> list]
    ELSE AppendWrites(IF actions[i].ann = "write"
                      THEN Append(list, actions[i].name) ELSE list,
                      actions, i + 1)

\* for action in response['Actions']:
\*     if not action['Annotations']['Properties']['IsWrite']:
\*         self[service].append(action['Name'])
\* The loop stops at the first action that raises; what it appended stays.
RECURSIVE AppendReadOnly(_, _, _)
AppendReadOnly(list, actions, i) ==
    IF i > Len(actions) THEN [ok |-> TRUE, list |-> list]
    ELSE IF actions[i].ann = "missing" THEN [ok |-> FALSE, list |-> list]
    ELSE AppendReadOnly(IF actions[i].ann = "read"
                        THEN Append(list, actions[i].name) ELSE list,
                        actions, i + 1)

\* Faulty variant: a failed write is not caught
_save_service_cache_raising(file, operations, wr) ==
    [file |-> WriteFile(file, operations, wr), raised |-> wr # "ok"]

\* _save_service_cache: every exception is caught and logged

_save_service_cache(file, operations, wr) ==
    [file |-> WriteFile(file, operations, wr), raised |-> FALSE]

\* Faulty variant: the list is written to the cache file even when the
\* loop over the actions raised
TryFetchSavingPartial(self, service, resp, file, wr) ==
    IF resp.kind # "json"
    THEN [ok |-> FALSE, self |-> self, file |-> file]
    ELSE IF ~resp.hasActions
    THEN [ok |-> FALSE, self |-> Put(self, service, <<>>), file |-> file]
    ELSE LET parsed == AppendReadOnly(<<>>, resp.actions, 1)
             filled == Put(self, service, parsed.list)
             saved == _save_service_cache(file, parsed.list, wr)
         IN [ok |-> parsed.ok /\ ~saved.raised, self |-> filled,
             file |-> saved.file]

\* The try block of _cache_ready_only_operations_for_service.
\* self[service] = [] runs as soon as the body is JSON, before
\* response['Actions'] is looked up.
TryFetch(self, service, resp, file, wr) ==
    IF resp.kind # "json"
    THEN [ok |-> FALSE, self |-> self, file |-> file]
    ELSE IF ~resp.hasActions
    THEN [ok |-> FALSE, self |-> Put(self, service, <<>>), file |-> file]
    ELSE LET parsed == AppendReadOnly(<<>>, resp.actions, 1)
             filled == Put(self, service, parsed.list)
             saved == IF parsed.ok
                      THEN _save_service_cache(file, parsed.list, wr)
                      ELSE [file |-> file, raised |-> FALSE]
         IN [ok |-> parsed.ok /\ ~saved.raised, self |-> filled,
             file |-> saved.file]

\* Faulty variant: an empty list instead of RuntimeError
LoadServiceCacheDefaulting(self, service, file) ==
    IF file.exists /\ json_load(file).ok
    THEN [raised |-> FALSE, self |-> Put(self, service, json_load(file).value),
          read |-> TRUE]
    ELSE [raised |-> FALSE, self |-> Put(self, service, <<>>),
          read |-> file.exists]

\* Faulty variant: the loaded list is added to what the try block left
LoadServiceCacheExtending(self, service, file) ==
    IF file.exists
    THEN LET loaded == json_load(file)
         IN IF loaded.ok
            THEN [raised |-> FALSE,
                  self |-> Put(self, service,
                               (IF service \in DOMAIN self
                                THEN self[service] ELSE <<>>)
                               \o loaded.value),
                  read |-> TRUE]
            ELSE [raised |-> TRUE, self |-> self, read |-> TRUE]
    ELSE [raised |-> TRUE, self |-> self, read |-> FALSE]

\* Faulty variant: the dict is emptied before RuntimeError is raised
LoadServiceCacheClearing(self, service, file) ==
    IF file.exists /\ json_load(file).ok
    THEN [raised |-> FALSE, self |-> Put(self, service, json_load(file).value),
          read |-> TRUE]
    ELSE [raised |-> TRUE, self |-> Empty, read |-> file.exists]

\* The except block: load the cache file or raise RuntimeError
LoadServiceCache(self, service, file) ==
    IF file.exists
    THEN LET loaded == json_load(file)
         IN IF loaded.ok
            THEN [raised |-> FALSE, self |-> Put(self, service, loaded.value),
                  read |-> TRUE]
            ELSE [raised |-> TRUE, self |-> self, read |-> TRUE]
    ELSE [raised |-> TRUE, self |-> self, read |-> FALSE]

_cache_ready_only_operations_for_service(self, service, resp, file, wr) ==
    LET try == TryFetch(self, service, resp, file, wr)
    IN IF try.ok
       THEN [raised |-> FALSE, self |-> try.self, file |-> try.file,
             get |-> TRUE, read |-> FALSE, source |-> "remote"]
       ELSE LET exc == LoadServiceCache(try.self, service, try.file)
            IN [raised |-> exc.raised, self |-> exc.self, file |-> try.file,
                get |-> TRUE, read |-> exc.read,
                source |-> IF exc.raised THEN "none" ELSE "cache"]

InList(operation, list) == \E i \in DOMAIN list : list[i] = operation

Ret(b) == IF b THEN "true" ELSE "false"

\* Faulty variant: the Override Table is never consulted
InOverridesDropped(service, operation) == FALSE

\* service in OVERRIDES and operation in OVERRIDES[service]

InOverrides(service, operation) ==
    /\ service \in DOMAIN OVERRIDES
    /\ operation \in DOMAIN OVERRIDES[service]

\* Faulty variant: the static set is never consulted
InKnownDropped(knownOps, service, operation) == FALSE

\* service in self._known_readonly_operations and operation in its list
InKnown(knownOps, service, operation) ==
    /\ service \in DOMAIN knownOps
    /\ InList(operation, knownOps[service])

\* Faulty variant: the in-memory entry is never reused
ResolvedDropped(self, service) == FALSE

\* service in self

Resolved(self, service) == service \in DOMAIN self

\* Faulty variant: the directory is not asked before resolving
InDirectoryDropped(directory, service) == TRUE

\* service in self._service_reference_urls_by_service

InDirectory(directory, service) == service \in DOMAIN directory

\* has(service, operation): ret is "true", "false" or "raise"
has(self, knownOps, directory, service, operation, resp, file, wr) ==
    LET quiet(ret) == [ret |-> ret, self |-> self, file |-> file,
                       get |-> FALSE, read |-> FALSE, source |-> "none"]
    IN IF InOverrides(service, operation)
       THEN quiet(Ret(OVERRIDES[service][operation]))
       ELSE IF InKnown(knownOps, service, operation)
       THEN quiet("true")
       ELSE IF Resolved(self, service)
       THEN quiet(Ret(InList(operation, self[service])))
       ELSE IF ~InDirectory(directory, service)
       THEN quiet("false")
       ELSE LET r == _cache_ready_only_operations_for_service(
                         self, service, resp, file, wr)
            IN [ret |-> IF r.raised THEN "raise"
                        ELSE Ret(InList(operation, r.self[service])),
                self |-> r.self, file |-> r.file, get |-> r.get,
                read |-> r.read, source |-> r.source]

get_read_only_operations(dresp, file, wr) ==
    ServiceReferenceUrlsByService(dresp, file, wr)

----------------------------------------------------------------------------
(* scripts/prebuild_cache.py *)

\* svc_resp.raise_for_status(): HTTPError for a 4xx or 5xx status
RaisesForStatus(resp) == resp.status \in 400..599

\* not action.get('Annotations', {}).get('Properties', {}).get('IsWrite', True)
\* an action without the annotation counts as a write
NotIsWrite(action) == action.ann = "read"

\* Faulty variant: True is returned although the write raised
fetch_service_operations_true(resp, file, wr) ==
    IF resp.kind # "json" \/ RaisesForStatus(resp)
    THEN [ok |-> FALSE, file |-> file]
    ELSE LET actions == IF resp.hasActions THEN resp.actions ELSE <<>>
             read_only_ops == Names(SelectSeq(actions, NotIsWrite))
         IN [ok |-> TRUE, file |-> WriteFile(file, read_only_ops, wr)]

\* fetch_service_operations: True when the list was written, False when
\* anything raised. A body without 'Actions' reads as an empty array.
fetch_service_operations(resp, file, wr) ==
    IF resp.kind # "json" \/ RaisesForStatus(resp)
    THEN [ok |-> FALSE, file |-> file]
    ELSE LET actions == IF resp.hasActions THEN resp.actions ELSE <<>>
             read_only_ops == Names(SelectSeq(actions, NotIsWrite))
         IN [ok |-> wr = "ok", file |-> WriteFile(file, read_only_ops, wr)]

----------------------------------------------------------------------------
(* What the endpoints' documents say, read off the response itself *)

\* A directory response every record of which carries service and url
DirResponseOk(dresp) ==
    /\ dresp.kind = "json"
    /\ \A i \in DOMAIN dresp.records : dresp.records[i].url # NoKey

\* The mapping a list of complete records stands for: a service named more
\* than once has the url of its last record
DirMapping(records) ==
    [s \in {records[i].service : i \in DOMAIN records} |->
        LET at == {i \in DOMAIN records : records[i].service = s}
            n == CHOOSE i \in at : \A j \in at : j <= i
        IN records[n].url]

\* A service response with an Actions array of fully annotated actions
ServiceResponseOk(sresp) ==
    /\ sresp.kind = "json"
    /\ sresp.hasActions
    /\ \A i \in DOMAIN sresp.actions : sresp.actions[i].ann # "missing"

\* An answer arrived and its status is not 2xx
NonOkStatus(resp) == resp.kind = "json" /\ resp.status \notin 200..299

\* The names of the actions the response does not mark as write
NotWrite(sresp) ==
    {sresp.actions[i].name :
        i \in {j \in DOMAIN sresp.actions : sresp.actions[j].ann = "read"}}

----------------------------------------------------------------------------
(* The state machine *)

NoList == [valid |-> FALSE, list |-> <<>>]

NoCall == [op |-> "none", svc |-> NoKey, oper |-> NoKey, ret |-> "none",
           fetch |-> "none", marked |-> {}, mapping |-> Empty,
           wr |-> "none", source |-> "none", get |-> FALSE, read |-> FALSE,
           refused |-> FALSE]

\* The batch has not been started
NoBatch == [pc |-> "off"]

\* No thread is inside has()
NoThreads == <<>>

\* No answer is being compared
NoProbe == [resp |-> NoServiceResponse]

Init ==
    /\ metadata \in MetadataChoices
    /\ dirFile = Absent
    /\ opFiles = [s \in Services |-> Absent]
    /\ persisted = [s \in Services |-> NoList]
    /\ alive = FALSE
    /\ urls = Empty
    /\ known = Empty
    /\ mem = Empty
    /\ fetched = {}
    /\ last = NoCall
    /\ batch = NoBatch
    /\ thr = NoThreads
    /\ probe = NoProbe

\* A process starts and calls get_read_only_operations(); the directory
\* endpoint answers with one of `responses`
StartWith(responses) ==
    /\ last.op = "none"
    /\ \E dresp \in responses, wr \in WriteOutcomes :
       \E r \in {get_read_only_operations(dresp, dirFile, wr)} :
            /\ (~DirResponseOk(dresp) => wr = "ok")
            /\ dirFile' = r.file
            /\ alive' = ~r.raised
            /\ urls' = IF r.raised THEN Empty ELSE r.dict
            /\ known' = IF r.raised THEN Empty
                        ELSE ReadOnlyOperations_init(metadata)
            /\ last' = [op |-> "init", svc |-> NoKey, oper |-> NoKey,
                        ret |-> IF r.raised THEN "raise" ELSE "ok",
                        fetch |-> IF DirResponseOk(dresp) THEN "ok"
                                  ELSE "failed",
                        marked |-> {},
                        mapping |-> IF DirResponseOk(dresp)
                                    THEN DirMapping(dresp.records) ELSE Empty,
                        wr |-> IF DirResponseOk(dresp) THEN wr ELSE "none",
                        source |-> r.source, get |-> TRUE,
                        read |-> r.source # "remote" /\ dirFile.exists,
                        refused |-> NonOkStatus(dresp)]
    /\ mem' = Empty
    /\ fetched' = {}
    /\ UNCHANGED <<metadata, opFiles, persisted, batch, thr, probe>>

\* Here the directory endpoint keeps one url and names a service once
Start ==
    StartWith({d \in DirResponses({"u1"}) :
                 \A i, j \in DOMAIN d.records :
                    d.records[i].service = d.records[j].service => i = j})

\* The running process calls has(service, operation)
HasCall ==
    /\ alive
    /\ last.op = "none"
    /\ \E service \in Services, operation \in Ops,
          sresp \in ServiceResponses, wr \in WriteOutcomes :
       \E r \in {has(mem, known, urls, service, operation, sresp,
                      opFiles[service], wr)} :
            /\ (~r.get => sresp.kind = "error")
            /\ (~ServiceResponseOk(sresp) => wr = "ok")
            /\ mem' = r.self
            /\ opFiles' = [opFiles EXCEPT ![service] = r.file]
            /\ persisted' =
                 IF r.source = "remote" /\ wr = "ok"
                 THEN [persisted EXCEPT ![service] =
                          [valid |-> TRUE, list |-> r.self[service]]]
                 ELSE IF r.file = opFiles[service] THEN persisted
                 ELSE [persisted EXCEPT ![service] = NoList]
            /\ fetched' = IF r.get THEN fetched \cup {service} ELSE fetched
            /\ last' = [op |-> "has", svc |-> service, oper |-> operation,
                        ret |-> r.ret,
                        fetch |-> IF ~r.get THEN "none"
                                  ELSE IF ServiceResponseOk(sresp) THEN "ok"
                                  ELSE "failed",
                        marked |-> IF r.get /\ ServiceResponseOk(sresp)
                                   THEN NotWrite(sresp) ELSE {},
                        mapping |-> Empty,
                        wr |-> IF r.get /\ ServiceResponseOk(sresp) THEN wr
                               ELSE "none",
                        source |-> r.source, get |-> r.get, read |-> r.read,
                        refused |-> r.get /\ NonOkStatus(sresp)]
    /\ UNCHANGED <<metadata, dirFile, alive, urls, known, batch, thr, probe>>

\* The caller takes what the call gave back and goes on
Return ==
    /\ last.op # "none"
    /\ last' = NoCall
    /\ UNCHANGED <<metadata, dirFile, opFiles, persisted, alive, urls, known,
                   mem, fetched, batch, thr, probe>>

Next == Start \/ HasCall \/ Return

Spec == Init /\ [][Next]_vars

\* The directory resolver alone, against every directory response
StartDir == StartWith(DirResponses(Urls))

NextDir == StartDir \/ Return

SpecDir == Init /\ [][NextDir]_vars

\* The directory resolver against answers of any status
StartStatus == StartWith(DirResponsesWithStatus({"u1"}))

NextStatus == StartStatus \/ Return

SpecStatus == Init /\ [][NextStatus]_vars

----------------------------------------------------------------------------
(* scripts/prebuild_cache.py main(): one run of the batch over an empty
   cache directory *)

\* The records main() submits a fetch for: those before the first record
\* on which svc['service'] or svc['url'] raises KeyError
RECURSIVE Submitted(_, _)
Submitted(records, i) ==
    IF i > Len(records) \/ records[i].url = NoKey THEN <<>>
    ELSE <<records[i].service>> \o Submitted(records, i + 1)

InitBatch ==
    /\ metadata \in MetadataChoices
    /\ dirFile = Absent
    /\ opFiles = [s \in Services |-> Absent]
    /\ persisted = [s \in Services |-> NoList]
    /\ alive = FALSE
    /\ urls = Empty
    /\ known = Empty
    /\ mem = Empty
    /\ fetched = {}
    /\ last = NoCall
    /\ batch = [pc |-> "start"]
    /\ thr = NoThreads
    /\ probe = NoProbe

\* What main() has reached when it stops before the pool: exit status 1
Stopped(at, dresp) ==
    [pc |-> "done", at |-> at, exit |-> 1, answered |-> DirResponseOk(dresp)
                                                       /\ ~NonOkStatus(dresp),
     entries |-> Len(dresp.records), names |-> <<>>, res |-> <<>>,
     counted |-> {}, success |-> 0, failed |-> 0, crashed |-> TRUE]

\* main() up to the end of the submissions: mkdir (56-57), the directory
\* GET (61-67), the write of service_reference_urls.json (69-71), and one
\* submit per record (77-83). Here the directory names a service once.
\* When mkdir raises no request is made; a write outcome is drawn only for
\* an answer that reaches the write.
BatchStart ==
    /\ batch.pc = "start"
    /\ \E mk \in {"ok", "fail"},
          dresp \in {d \in DirResponsesWithStatus({"u1"}) :
                       \A i, j \in DOMAIN d.records :
                          d.records[i].service = d.records[j].service
                              => i = j},
          wr \in WriteOutcomes :
          IF mk = "fail"
          THEN /\ dresp.kind = "error" /\ wr = "ok"
               /\ batch' = [Stopped("mkdir", dresp) EXCEPT !.answered = FALSE]
               /\ dirFile' = dirFile
          ELSE IF dresp.kind # "json" \/ RaisesForStatus(dresp)
          THEN /\ wr = "ok"
               /\ batch' = Stopped("fetch", dresp)
               /\ dirFile' = dirFile
          ELSE IF wr # "ok"
          THEN /\ batch' = Stopped("write", dresp)
               /\ dirFile' = WriteFile(dirFile, dresp.records, wr)
          ELSE LET names == Submitted(dresp.records, 1)
               IN /\ batch' = [pc |-> "pool", at |-> "pool", exit |-> -1,
                               answered |-> DirResponseOk(dresp),
                               entries |-> Len(dresp.records),
                               names |-> names,
                               res |-> [i \in DOMAIN names |-> "pending"],
                               counted |-> {}, success |-> 0, failed |-> 0,
                               crashed |-> Len(names) < Len(dresp.records)]
                  /\ dirFile' = WriteFile(dirFile, dresp.records, wr)
    /\ UNCHANGED <<metadata, opFiles, persisted, alive, urls, known, mem,
                   fetched, last, thr, probe>>

\* A worker of the pool runs fetch_service_operations for one record
BatchWorker ==
    /\ batch.pc = "pool"
    /\ \E i \in DOMAIN batch.names, sresp \in ServiceResponsesWithStatus,
          wr \in WriteOutcomes :
       \E r \in {fetch_service_operations(
                      sresp, opFiles[batch.names[i]], wr)} :
          /\ batch.res[i] = "pending"
          /\ (sresp.kind # "json" \/ RaisesForStatus(sresp)) => wr = "ok"
          /\ batch' = [batch EXCEPT !.res[i] = Ret(r.ok)]
          /\ opFiles' = [opFiles EXCEPT ![batch.names[i]] = r.file]
    /\ UNCHANGED <<metadata, dirFile, persisted, alive, urls, known, mem,
                   fetched, last, thr, probe>>

\* for future in as_completed(futures): one completed future is counted
BatchCollect ==
    /\ batch.pc = "pool"
    /\ ~batch.crashed
    /\ \E i \in DOMAIN batch.names :
          /\ batch.res[i] # "pending"
          /\ i \notin batch.counted
          /\ batch' = [batch EXCEPT
                          !.counted = @ \cup {i},
                          !.success = IF batch.res[i] = "true" THEN @ + 1
                                      ELSE @,
                          !.failed = IF batch.res[i] = "true" THEN @
                                     ELSE @ + 1]
    /\ UNCHANGED <<metadata, dirFile, opFiles, persisted, alive, urls, known,
                   mem, fetched, last, thr, probe>>

\* The with block ends when every submitted future is done; main() returns
\* (exit status 0), or the KeyError of the submissions goes up (status 1)
BatchExit ==
    /\ batch.pc = "pool"
    /\ \A i \in DOMAIN batch.names : batch.res[i] # "pending"
    /\ batch.crashed \/ batch.counted = DOMAIN batch.names
    /\ batch' = [batch EXCEPT !.pc = "done",
                              !.exit = IF batch.crashed THEN 1 ELSE 0]
    /\ UNCHANGED <<metadata, dirFile, opFiles, persisted, alive, urls, known,
                   mem, fetched, last, thr, probe>>

NextBatch == BatchStart \/ BatchWorker \/ BatchCollect \/ BatchExit

SpecBatch == InitBatch /\ [][NextBatch]_vars

----------------------------------------------------------------------------
(* Threads calling has() on one shared instance. The code takes no lock, so
   a thread can be preempted between any two accesses to the shared dict or
   to a cache file; a step below holds at most one such access. *)

Threads == {"t1", "t2"}

IdleThread ==
    [pc |-> "idle", svc |-> NoKey, oper |-> NoKey, resp |-> NoServiceResponse,
     i |-> 0, arg |-> <<>>, got |-> FALSE, resolved |-> FALSE, L |-> <<>>,
     ret |-> "none"]

\* An instance built from a directory of both services; nothing resolved,
\* no cache file
InitThreads ==
    /\ metadata \in MetadataChoices
    /\ dirFile = Absent
    /\ opFiles = [s \in Services |-> Absent]
    /\ persisted = [s \in Services |-> NoList]
    /\ alive = TRUE
    /\ urls = [s \in Services |-> "u1"]
    /\ known = ReadOnlyOperations_init(metadata)
    /\ mem = Empty
    /\ fetched = {}
    /\ last = NoCall
    /\ batch = NoBatch
    /\ thr = [t \in Threads |-> IdleThread]
    /\ probe = NoProbe

\* has(), lines 135-145: the tables, then `service not in self`, the
\* directory, and the request of the resolver is sent (line 157)
ThreadCall(t) ==
    /\ thr[t].pc = "idle"
    /\ \E service \in Services, operation \in Ops :
          LET call == [thr[t] EXCEPT !.svc = service, !.oper = operation]
              returns(ret) == [call EXCEPT !.pc = "done", !.ret = ret]
          IN thr' = [thr EXCEPT ![t] =
                IF InOverrides(service, operation)
                THEN returns(Ret(OVERRIDES[service][operation]))
                ELSE IF InKnown(known, service, operation)
                THEN returns("true")
                ELSE IF Resolved(mem, service)
                THEN [call EXCEPT !.pc = "answer"]
                ELSE IF ~InDirectory(urls, service)
                THEN returns("false")
                ELSE [call EXCEPT !.pc = "get", !.got = TRUE]]
    /\ UNCHANGED <<metadata, dirFile, opFiles, persisted, alive, urls, known,
                   mem, fetched, last, batch, probe>>

\* Lines 157-161: the answer arrives; self[service] = [] as soon as the
\* body is JSON, then response['Actions'] is looked up
ThreadReceive(t) ==
    /\ thr[t].pc = "get"
    /\ \E sresp \in ServiceResponses :
          IF sresp.kind # "json"
          THEN /\ thr' = [thr EXCEPT ![t].pc = "except"]
               /\ mem' = mem
          ELSE /\ mem' = Put(mem, thr[t].svc, <<>>)
               /\ thr' = [thr EXCEPT ![t] =
                            IF sresp.hasActions
                            THEN [@ EXCEPT !.pc = "loop", !.resp = sresp,
                                           !.i = 1]
                            ELSE [@ EXCEPT !.pc = "except"]]
    /\ fetched' = fetched \cup {thr[t].svc}
    /\ UNCHANGED <<metadata, dirFile, opFiles, persisted, alive, urls, known,
                   last, batch, probe>>

\* Lines 161-163: one turn of the loop; self[service] is looked up in the
\* shared dict at every append. After the last action the list in the dict
\* is the argument of _save_service_cache (line 165).
ThreadLoop(t) ==
    /\ thr[t].pc = "loop"
    /\ LET me == thr[t]
           actions == me.resp.actions
       IN IF me.i > Len(actions)
          THEN /\ thr' = [thr EXCEPT ![t] =
                            [@ EXCEPT !.pc = "save", !.arg = mem[me.svc],
                                      !.resolved = TRUE, !.L = mem[me.svc],
                                      !.resp = NoServiceResponse, !.i = 0]]
               /\ mem' = mem
          ELSE IF actions[me.i].ann = "missing"
          THEN /\ thr' = [thr EXCEPT ![t] =
                            [@ EXCEPT !.pc = "except",
                                      !.resp = NoServiceResponse, !.i = 0]]
               /\ mem' = mem
          ELSE /\ thr' = [thr EXCEPT ![t].i = @ + 1]
               /\ mem' = IF actions[me.i].ann = "read"
                         THEN [mem EXCEPT ![me.svc] =
                                  Append(@, actions[me.i].name)]
                         ELSE mem
    /\ UNCHANGED <<metadata, dirFile, opFiles, persisted, alive, urls, known,
                   fetched, last, batch, probe>>

\* _save_service_cache, lines 192-195: mkdir and open(cache_file, 'w');
\* a failure is logged and has() goes on to line 146
ThreadOpen(t) ==
    /\ thr[t].pc = "save"
    /\ \E opened \in BOOLEAN :
          IF opened
          THEN /\ opFiles' = [opFiles EXCEPT ![thr[t].svc] = Truncated]
               /\ thr' = [thr EXCEPT ![t].pc = "dump"]
          ELSE /\ opFiles' = opFiles
               /\ thr' = [thr EXCEPT ![t] =
                            [@ EXCEPT !.pc = "answer", !.arg = <<>>]]
    /\ UNCHANGED <<metadata, dirFile, persisted, alive, urls, known, mem,
                   fetched, last, batch, probe>>

\* _save_service_cache, line 196: json.dump and close, or a failure that
\* is logged. The list object may have been appended to by another thread
\* since line 165, or replaced in the dict: either content can be dumped.
ThreadDump(t) ==
    /\ thr[t].pc = "dump"
    /\ \E written \in BOOLEAN, operations \in {thr[t].arg, mem[thr[t].svc]} :
          /\ ~written => operations = thr[t].arg
          /\ opFiles' = IF written
                        THEN [opFiles EXCEPT ![thr[t].svc] =
                                 json_dump(operations)]
                        ELSE opFiles
    /\ thr' = [thr EXCEPT ![t] = [@ EXCEPT !.pc = "answer", !.arg = <<>>]]
    /\ UNCHANGED <<metadata, dirFile, persisted, alive, urls, known, mem,
                   fetched, last, batch, probe>>

\* The except block, lines 166-187: load the cache file or raise
ThreadExcept(t) ==
    /\ thr[t].pc = "except"
    /\ \E exc \in {LoadServiceCache(mem, thr[t].svc, opFiles[thr[t].svc])} :
          /\ mem' = exc.self
          /\ thr' = [thr EXCEPT ![t] =
                       IF exc.raised
                       THEN [@ EXCEPT !.pc = "done", !.ret = "raise"]
                       ELSE [@ EXCEPT !.pc = "answer"]]
    /\ UNCHANGED <<metadata, dirFile, opFiles, persisted, alive, urls, known,
                   fetched, last, batch, probe>>

\* Line 146: return operation in self[service]
ThreadAnswer(t) ==
    /\ thr[t].pc = "answer"
    /\ thr' = [thr EXCEPT ![t] =
                 [@ EXCEPT !.pc = "done",
                           !.ret = Ret(InList(thr[t].oper, mem[thr[t].svc]))]]
    /\ UNCHANGED <<metadata, dirFile, opFiles, persisted, alive, urls, known,
                   mem, fetched, last, batch, probe>>

NextThreads ==
    \E t \in Threads :
        \/ ThreadCall(t)
        \/ ThreadReceive(t)
        \/ ThreadLoop(t)
        \/ ThreadOpen(t)
        \/ ThreadDump(t)
        \/ ThreadExcept(t)
        \/ ThreadAnswer(t)

SpecThreads == InitThreads /\ [][NextThreads]_vars

----------------------------------------------------------------------------
(* One answer of a service endpoint, given to the batch's fetch and to the
   runtime's resolver of a fresh instance, over the same cache file *)

ProbeFiles == {Absent, json_dump(<<"ls">>)}

InitProbe ==
    /\ metadata \in MetadataChoices
    /\ dirFile = Absent
    /\ opFiles = [s \in Services |-> Absent]
    /\ persisted = [s \in Services |-> NoList]
    /\ alive = FALSE
    /\ urls = Empty
    /\ known = Empty
    /\ mem = Empty
    /\ fetched = {}
    /\ last = NoCall
    /\ batch = NoBatch
    /\ thr = NoThreads
    /\ probe \in [resp : ServiceResponsesWithStatus, svc : Services,
                  file : ProbeFiles, wr : WriteOutcomes,
                  batch : {[ran |-> FALSE]}, runtime : {[ran |-> FALSE]}]

ProbeBatch ==
    /\ probe.resp.kind # "none"
    /\ ~probe.batch.ran
    /\ \E r \in {fetch_service_operations(probe.resp, probe.file, probe.wr)} :
          probe' = [probe EXCEPT
                       !.batch = [ran |-> TRUE, ok |-> r.ok, file |-> r.file]]
    /\ UNCHANGED <<metadata, dirFile, opFiles, persisted, alive, urls, known,
                   mem, fetched, last, batch, thr>>

ProbeRuntime ==
    /\ probe.resp.kind # "none"
    /\ ~probe.runtime.ran
    /\ \E r \in {_cache_ready_only_operations_for_service(
                      Empty, probe.svc, probe.resp, probe.file, probe.wr)} :
          probe' = [probe EXCEPT
                       !.runtime = [ran |-> TRUE,
                                    accepted |-> r.source = "remote",
                                    raised |-> r.raised,
                                    file |-> r.file,
                                    list |-> IF r.raised THEN <<>>
                                             ELSE r.self[probe.svc]]]
    /\ UNCHANGED <<metadata, dirFile, opFiles, persisted, alive, urls, known,
                   mem, fetched, last, batch, thr>>

NextProbe == ProbeBatch \/ ProbeRuntime

SpecProbe == InitProbe /\ [][NextProbe]_vars

----------------------------------------------------------------------------
(* Vocabulary of the properties *)

\* (service, operation) is an entry of the Override Table
Overridden(service, operation) ==
    /\ service \in DOMAIN OVERRIDES
    /\ operation \in DOMAIN OVERRIDES[service]

\* (service, operation) is in the merged static set: tagged ReadOnly in the
\* bundled metadata, or listed in the custom table
InStaticSet(service, operation) ==
    \/ /\ service \in DOMAIN metadata
       /\ \E i \in DOMAIN metadata[service] :
             /\ metadata[service][i].name = operation
             /\ metadata[service][i].type = "ReadOnly"
    \/ /\ service \in DOMAIN _get_custom_readonly_operations
       /\ \E i \in DOMAIN _get_custom_readonly_operations[service] :
             _get_custom_readonly_operations[service][i] = operation

\* A cache file that is present and deserializable
Loadable(file) == file.exists /\ file.closed

Members(list) == {list[i] : i \in DOMAIN list}

HasReturned == last.op = "has"

InitReturned == last.op = "init"

----------------------------------------------------------------------------
(* Properties *)

\* C1: for every (service, operation) of the Override Table, has() returns
\* exactly the forced value, whatever the static set, the directory, the
\* in-memory lists, the cache files and the network hold.
C1_OverrideForced ==
    (HasReturned /\ Overridden(last.svc, last.oper))
        => last.ret = (IF OVERRIDES[last.svc][last.oper] THEN "true"
                       ELSE "false")

\* has("sts", "AssumeRole") returned false although the static set and the
\* fetched list of sts both hold AssumeRole as read-only
C1_Witness ==
    /\ HasReturned /\ last.svc = "sts" /\ last.oper = "AssumeRole"
    /\ last.ret = "false"
    /\ InStaticSet("sts", "AssumeRole")
    /\ "sts" \in DOMAIN mem /\ "AssumeRole" \in Members(mem["sts"])

\* C2: for every (service, operation) of the merged static set (bundled
\* read-only operations united with the custom table) that is not in the
\* Override Table, has() returns true.
C2_StaticIsReadOnly ==
    (HasReturned /\ InStaticSet(last.svc, last.oper)
        /\ ~Overridden(last.svc, last.oper))
        => last.ret = "true"

\* has("s3", "ListBuckets") returned true from the bundled data of a service
\* that also has custom operations, while s3 is in the directory, unresolved
C2_Witness ==
    /\ HasReturned /\ last.svc = "s3" /\ last.oper = "ListBuckets"
    /\ last.ret = "true"
    /\ InStaticSet("s3", "ListBuckets") /\ InStaticSet("s3", "ls")
    /\ "s3" \in DOMAIN urls /\ "s3" \notin DOMAIN mem

\* C3: for a service that is not in the directory, has() of an operation
\* matched by neither the Override Table nor the static set returns false,
\* issues no network request and reads no cache file.
C3_UnknownServiceIsFalse ==
    (HasReturned /\ last.svc \notin DOMAIN urls
        /\ ~Overridden(last.svc, last.oper)
        /\ ~InStaticSet(last.svc, last.oper))
        => (last.ret = "false" /\ ~last.get /\ ~last.read)

\* such a call returned, for a service whose cache file exists
C3_Witness ==
    /\ HasReturned /\ last.svc \notin DOMAIN urls
    /\ ~Overridden(last.svc, last.oper) /\ ~InStaticSet(last.svc, last.oper)
    /\ last.ret = "false"
    /\ Loadable(opFiles[last.svc])

\* C4: when has() reaches the per-service resolver, the fetch fails and no
\* loadable cache file exists for the service, the call raises and returns
\* neither true nor false.
C4_UnavailableRaises ==
    (HasReturned /\ last.get /\ last.fetch = "failed"
        /\ ~Loadable(opFiles[last.svc]))
        => last.ret = "raise"

\* the call raised over a cache file that is present and not deserializable
C4_Witness ==
    /\ HasReturned /\ last.get /\ last.fetch = "failed"
    /\ last.ret = "raise"
    /\ opFiles[last.svc] = Truncated

\* C5 as stated: an instance issues at most one network GET for a service,
\* over any sequence of has() calls.
C5_OneGetPerService ==
    [][\A s \in fetched :
          ~(last'.op = "has" /\ last'.svc = s /\ last'.get)]_vars

\* C5 as amended: once an instance holds an in-memory entry for a service, no
\* later has() call for that service issues a GET, reads the service's cache
\* file or changes the entry or the file.
C5_ResolvedNeverRefetched ==
    [][\A s \in DOMAIN mem :
          (last'.op = "has" /\ last'.svc = s)
              => (~last'.get /\ ~last'.read /\ mem' = mem
                  /\ opFiles' = opFiles)]_vars

\* a second query for a service this instance fetched before was answered
\* from the in-memory list
C5_Witness ==
    /\ HasReturned /\ ~last.get
    /\ last.svc \in fetched /\ last.svc \in DOMAIN mem
    /\ ~Overridden(last.svc, last.oper) /\ ~InStaticSet(last.svc, last.oper)
    /\ last.ret = "true"

\* C6: when the directory fetch fails during construction and a valid
\* directory cache file exists, construction does not raise and every
\* record of the cache file is in the service-to-url mapping.
C6_DirectoryFromCache ==
    (InitReturned /\ last.fetch = "failed" /\ Loadable(dirFile))
        => /\ last.ret = "ok"
           /\ alive
           /\ \A i \in DOMAIN dirFile.items :
                 /\ dirFile.items[i].service \in DOMAIN urls
                 /\ urls[dirFile.items[i].service]
                        = DirMapping(dirFile.items)[dirFile.items[i].service]

\* construction succeeded from a cache file of two services after the fetch
\* failed
C6_Witness ==
    /\ InitReturned /\ last.fetch = "failed" /\ last.ret = "ok"
    /\ Loadable(dirFile) /\ Len(dirFile.items) = 2
    /\ urls["sts"] = "u2"

\* C7: when the directory fetch fails during construction and the directory
\* cache file is absent or not deserializable, construction fails and no
\* instance is produced.
C7_NoDirectoryIsFatal ==
    (InitReturned /\ last.fetch = "failed" /\ ~Loadable(dirFile))
        => (last.ret = "raise" /\ ~alive)

\* construction raised over a cache file that is present and not
\* deserializable
C7_Witness ==
    /\ InitReturned /\ last.fetch = "failed" /\ last.ret = "raise"
    /\ dirFile = Truncated

\* C8: a list resolved from the network and persisted by one instance, then
\* loaded from the file by a later instance whose fetch fails, is the same
\* list, and has() answers by it as the first instance did.
C8_RoundTrip ==
    (HasReturned /\ last.source = "cache" /\ persisted[last.svc].valid)
        => /\ last.svc \in DOMAIN mem
           /\ mem[last.svc] = persisted[last.svc].list
           /\ last.ret = (IF last.oper \in Members(persisted[last.svc].list)
                          THEN "true" ELSE "false")

\* a later instance loaded a persisted list of two operations and answered
\* true by it
C8_Witness ==
    /\ HasReturned /\ last.source = "cache" /\ persisted[last.svc].valid
    /\ Len(persisted[last.svc].list) = 2
    /\ last.ret = "true"

\* C9: a has() call that raises for service s leaves the in-memory entry and
\* the cache file of every other service, the directory and the static set
\* as they were.
C9_FailureIsLocal ==
    [][(last'.op = "has" /\ last'.ret = "raise")
          => /\ \A t \in Services \ {last'.svc} :
                  /\ (t \in DOMAIN mem') = (t \in DOMAIN mem)
                  /\ (t \in DOMAIN mem => mem'[t] = mem[t])
                  /\ opFiles'[t] = opFiles[t]
             /\ urls' = urls /\ known' = known /\ dirFile' = dirFile
             /\ alive']_vars

\* a call raised while another service was resolved in memory
C9_Witness ==
    /\ HasReturned /\ last.ret = "raise"
    /\ \E t \in Services \ {last.svc} :
          t \in DOMAIN mem /\ mem[t] # <<>> /\ Loadable(opFiles[t])

\* C10: when the fetch succeeds, construction and has() complete normally
\* with the in-memory result the response stands for, whether or not the
\* write of the cache file succeeds.
C10_WriteFailureHarmless ==
    /\ (HasReturned /\ last.fetch = "ok")
          => /\ last.svc \in DOMAIN mem
             /\ Members(mem[last.svc]) = last.marked
             /\ last.ret = (IF last.oper \in last.marked THEN "true"
                            ELSE "false")
    /\ (InitReturned /\ last.fetch = "ok")
          => (last.ret = "ok" /\ alive /\ urls = last.mapping)

\* has() returned true from a fetched list whose cache file write failed
C10_Witness ==
    /\ HasReturned /\ last.fetch = "ok" /\ last.wr = "trunc"
    /\ last.ret = "true"
    /\ opFiles[last.svc] = Truncated

\* C13: after a successful network resolution of service s, has(s, o) of an
\* operation o matched by neither the Override Table nor the static set is
\* true exactly when the fetched metadata has an action named o that is not
\* marked as write; this holds for the resolving call and for every later
\* call answered from the list that resolution stored.
C13_ReadOnlyIffNotWrite ==
    [][/\ (last'.op = "has" /\ last'.source = "remote")
            => /\ Members(mem'[last'.svc]) = last'.marked
               /\ (~Overridden(last'.svc, last'.oper)
                     /\ ~InStaticSet(last'.svc, last'.oper))
                    => (last'.ret = "true" <=> last'.oper \in last'.marked)
       /\ (last'.op = "has" /\ last'.svc \in DOMAIN mem
             /\ ~Overridden(last'.svc, last'.oper)
             /\ ~InStaticSet(last'.svc, last'.oper))
            => (last'.ret = "true"
                   <=> last'.oper \in Members(mem[last'.svc]))]_vars

\* the metadata of s3 marked ls as read and AssumeRole as write, and
\* has("s3", "AssumeRole") returned false through the resolver
C13_Witness ==
    /\ HasReturned /\ last.source = "remote" /\ last.svc = "s3"
    /\ last.oper = "AssumeRole" /\ last.ret = "false"
    /\ last.marked = {"ls"} /\ Len(mem["s3"]) = 1

\* C15: a has() call decided by the Override Table or by the static set
\* issues no network request, reads and writes no cache file and leaves the
\* in-memory lists, the static set and the directory as they were, also when
\* the service is in the directory and unresolved.
C15_StaticDecisionIsPure ==
    [][(last'.op = "has"
          /\ (Overridden(last'.svc, last'.oper)
                \/ InStaticSet(last'.svc, last'.oper)))
          => /\ ~last'.get /\ ~last'.read
             /\ mem' = mem /\ opFiles' = opFiles /\ dirFile' = dirFile
             /\ known' = known /\ urls' = urls]_vars

\* has("sts", "AssumeRole") was decided by the Override Table while sts was
\* in the directory and had neither an in-memory entry nor a cache file
C15_Witness ==
    /\ HasReturned /\ last.svc = "sts" /\ last.oper = "AssumeRole"
    /\ last.ret = "false" /\ ~last.get
    /\ "sts" \in DOMAIN urls /\ "sts" \notin DOMAIN mem
    /\ opFiles["sts"] = Absent

\* C17: whenever has(s, o) raises, the instance holds no in-memory entry
\* for s afterwards, whatever the point at which the resolution failed.
C17_NoEntryAfterRaise ==
    (HasReturned /\ last.ret = "raise") => last.svc \notin DOMAIN mem

\* C20: a cache file changes only in a call whose network response was
\* parsed completely: a construction or a has() call that falls back to a
\* cache file, or finds none, leaves the directory file and every service
\* file with the content they had before the fetch attempt.
C20_FailedFetchKeepsFiles ==
    [][/\ \A s \in Services :
            opFiles'[s] # opFiles[s]
                => (last'.op = "has" /\ last'.svc = s /\ last'.fetch = "ok")
       /\ dirFile' # dirFile => (last'.op = "init" /\ last'.fetch = "ok")
       /\ (last'.op \in {"has", "init"} /\ last'.get
             /\ last'.source # "remote")
            => (opFiles' = opFiles /\ dirFile' = dirFile)]_vars

\* a has() call whose fetch failed fell back to a cache file of one
\* operation, written by an earlier instance
C20_Witness ==
    /\ HasReturned /\ last.fetch = "failed" /\ last.source = "cache"
    /\ Loadable(opFiles[last.svc]) /\ Len(opFiles[last.svc].items) = 1
    /\ persisted[last.svc].valid

\* C18: after a successful construction the directory is the mapping of the
\* complete network response when the fetch succeeded, and otherwise exactly
\* the mapping of the persisted cache file; it holds no entry taken from a
\* network response that was rejected.
C18_DirectoryFromOneSource ==
    (InitReturned /\ last.ret = "ok")
        => IF last.fetch = "ok" THEN urls = last.mapping
           ELSE Loadable(dirFile) /\ urls = DirMapping(dirFile.items)

\* C12: when the directory GET is answered with a non-2xx status, the
\* resolver falls back to the persisted cache: the body is not used as the
\* directory and is not written to the cache file, even when it parses.
C12_NonOkStatusFallsBack ==
    [][(last'.op = "init" /\ last'.refused)
          => (last'.source # "remote" /\ dirFile' = dirFile)]_vars

\* C16: for every answer of a service's metadata endpoint, the batch's fetch
\* writes a cache file exactly when the runtime resolver accepts the answer
\* as a success, and the list it writes is the list the runtime resolver
\* stores and persists for that answer.
C16_SameProtocol ==
    (probe.resp.kind # "none" /\ probe.batch.ran /\ probe.runtime.ran
        /\ probe.wr = "ok")
        => /\ probe.batch.ok <=> probe.runtime.accepted
           /\ probe.batch.ok
                => /\ probe.batch.file = probe.runtime.file
                   /\ json_load(probe.batch.file).value = probe.runtime.list

C11_OneFetchOneWriter ==
    \A s \in Services :
        /\ Cardinality({t \in Threads :
                           thr[t].pc = "get" /\ thr[t].svc = s}) <= 1
        /\ Cardinality({t \in Threads :
                           thr[t].pc = "dump" /\ thr[t].svc = s}) <= 1

\* C19: when a thread's resolution of service s completes with list L, a
\* has(s, o) call of another thread that was answered from the in-memory
\* entry (line 146, no fetch of its own) returned (o in L): it did not read
\* the entry while it was being filled.
C19_NoPartialList ==
    \A t, u \in Threads :
        (/\ thr[t].resolved
         /\ thr[u].pc = "done" /\ thr[u].svc = thr[t].svc /\ ~thr[u].got
         /\ thr[u].ret \in {"true", "false"}
         /\ ~Overridden(thr[u].svc, thr[u].oper)
         /\ ~InStaticSet(thr[u].svc, thr[u].oper))
            => thr[u].ret = Ret(InList(thr[u].oper, thr[t].L))

====
